---- MODULE Spec2Model ----
(***************************************************************************)
(* Model of src/main.py: the Cloud Function update_vertex_search, which    *)
(* turns one storage event (bucket, name) into zero or one                 *)
(* import_documents call on the shared DocumentServiceClient.              *)
(*                                                                         *)
(* Python strings are sequences of one-character strings, so that          *)
(* os.path.splitext, str.lower and the f-string formatting are computed    *)
(* character by character.  None is a value distinct from every string.    *)
(***************************************************************************)
EXTENDS Integers, Sequences, FiniteSets

VARIABLES
    PROJECT_ID,      \* main.py:9   module global, read from the environment
    LOCATION,        \* main.py:10
    DATA_STORE_ID,   \* main.py:11
    pc,              \* pc[i]: position of invocation i inside the handler
    event,           \* event[i]: cloud_event.data of invocation i
    extension,       \* extension[i]: local `extension` (main.py:43)
    sent,            \* sent[i]: the requests invocation i passed to import_documents
    result,          \* result[i]: what import_documents did for invocation i
    raised,          \* raised[i]: the exception that left the handler, or "none"
    logs,            \* logs[i]: the lines invocation i printed, in order
    submitted,       \* import_documents calls issued by all invocations
    delivered        \* number of events delivered so far

vars == <<PROJECT_ID, LOCATION, DATA_STORE_ID, pc, event, extension, sent,
          result, raised, logs, submitted, delivered>>

config == <<PROJECT_ID, LOCATION, DATA_STORE_ID>>

-----------------------------------------------------------------------------
(* Bounds *)

NumInv == 2          \* invocations that may be in flight together
MaxDeliveries == 3   \* events delivered in one behaviour
MaxNameLen == 3      \* length of the generated object keys

Slots == 1..NumInv

-----------------------------------------------------------------------------
(* Python values *)

None == <<"<None>">>

\* variant: only None counts as missing (`is not None` instead of truthiness)
Truthy_notNone(x) == x # None

\* bool(x) for x an Optional[str]: None and "" are falsy
Truthy(x) == x # None /\ x # <<>>

UpperCase == <<"A","B","C","D","E","F","G","H","I","J","K","L","M",
               "N","O","P","Q","R","S","T","U","V","W","X","Y","Z">>
LowerCase == <<"a","b","c","d","e","f","g","h","i","j","k","l","m",
               "n","o","p","q","r","s","t","u","v","w","x","y","z">>

ToLower(c) ==
    IF \E k \in 1..26 : UpperCase[k] = c
    THEN LowerCase[CHOOSE k \in 1..26 : UpperCase[k] = c]
    ELSE c

\* variant: the comparison without .lower()
lowerIdentity(s) == s

\* str.lower()
lower(s) == [k \in 1..Len(s) |-> ToLower(s[k])]

\* str.rfind(c), as a 1-based index; 0 when c does not occur
RECURSIVE rfindFrom(_, _, _)
rfindFrom(p, c, k) ==
    IF k = 0 THEN 0
    ELSE IF p[k] = c THEN k
    ELSE rfindFrom(p, c, k - 1)

rfind(p, c) == rfindFrom(p, c, Len(p))

\* the loop of genericpath._splitext that skips the leading dots of the
\* last path segment: TRUE iff some character in filenameIndex..dotIndex-1
\* is not a dot
RECURSIVE nonDotBefore(_, _, _)
nonDotBefore(p, filenameIndex, dotIndex) ==
    IF filenameIndex >= dotIndex THEN FALSE
    ELSE IF p[filenameIndex] # "." THEN TRUE
    ELSE nonDotBefore(p, filenameIndex + 1, dotIndex)

\* variant: the split at the last dot, leading dots of the segment included
splitextLastDot(p) ==
    LET dotIndex == rfind(p, ".")
    IN  IF dotIndex > rfind(p, "/")
        THEN <<SubSeq(p, 1, dotIndex - 1), SubSeq(p, dotIndex, Len(p))>>
        ELSE <<p, <<>>>>

\* os.path.splitext(p) (posixpath): <<root, ext>>
splitext(p) ==
    LET sepIndex == rfind(p, "/")
        dotIndex == rfind(p, ".")
    IN  IF dotIndex > sepIndex /\ nonDotBefore(p, sepIndex + 1, dotIndex)
        THEN <<SubSeq(p, 1, dotIndex - 1), SubSeq(p, dotIndex, Len(p))>>
        ELSE <<p, <<>>>>

-----------------------------------------------------------------------------
(* Module-level constants of main.py *)

\* variant: one more extension let through
ALLOWED_EXTENSIONS_withBak ==
    { <<".","h","t","m","l">>, <<".","p","d","f">>, <<".","d","o","c","x">>,
      <<".","p","p","t","x">>, <<".","t","x","t">>, <<".","x","l","s","x">>,
      <<".","b","a","k">> }

ALLOWED_EXTENSIONS ==
    { <<".","h","t","m","l">>, <<".","p","d","f">>, <<".","d","o","c","x">>,
      <<".","p","p","t","x">>, <<".","t","x","t">>, <<".","x","l","s","x">> }

\* the values the environment may hold for the three settings
ProjectIds == { None, <<>>, <<"p","1">> }
Locations == { None, <<>>, <<"g","l","o","b","a","l">> }
DataStoreIds == { None, <<>>, <<"d","s">> }

-----------------------------------------------------------------------------
(* Request construction, main.py:48-67 *)

\* variant: the object key normalised to lower case in the URI
gcsUriLowered(bucket_name, file_name) ==
    <<"g","s",":","/","/">> \o bucket_name \o <<"/">> \o lower(file_name)

\* f"gs://{bucket_name}/{file_name}"
gcsUri(bucket_name, file_name) ==
    <<"g","s",":","/","/">> \o bucket_name \o <<"/">> \o file_name

\* DocumentServiceClient.branch_path:
\* projects/{project}/locations/{location}/dataStores/{data_store}/branches/{branch}
branch_path(project, location, data_store, branch) ==
    <<"p","r","o","j","e","c","t","s","/">> \o project
    \o <<"/","l","o","c","a","t","i","o","n","s","/">> \o location
    \o <<"/","d","a","t","a","S","t","o","r","e","s","/">> \o data_store
    \o <<"/","b","r","a","n","c","h","e","s","/">> \o branch

default_branch ==
    <<"d","e","f","a","u","l","t","_","b","r","a","n","c","h">>

ImportDocumentsRequest(bucket_name, file_name) ==
    [ parent |-> branch_path(PROJECT_ID, LOCATION, DATA_STORE_ID, default_branch),
      gcs_source |-> [ input_uris |-> << gcsUri(bucket_name, file_name) >>,
                       data_schema |-> "content" ],
      reconciliation_mode |-> "INCREMENTAL" ]

-----------------------------------------------------------------------------
(* The indexing client's answers to import_documents *)

\* subclasses of google.api_core.exceptions.GoogleAPICallError
ApiCallErrors == { "PermissionDenied", "ResourceExhausted", "InvalidArgument" }

\* failures the client surfaces that are not GoogleAPICallError
\* (google.api_core.exceptions.RetryError derives from GoogleAPIError only)
OtherErrors == { "RetryError" }

ClientResults == { "ok" } \cup ApiCallErrors \cup OtherErrors

\* variant: `except Exception`
isGoogleAPICallError_any(e) == e # "ok"

\* the `except GoogleAPICallError` filter, main.py:75
isGoogleAPICallError(e) == e \in ApiCallErrors

-----------------------------------------------------------------------------
(* Inputs *)

RECURSIVE SeqsOfLen(_, _)
SeqsOfLen(S, n) ==
    IF n = 0 THEN { <<>> }
    ELSE { Append(s, c) : s \in SeqsOfLen(S, n - 1), c \in S }

PathChars == { "a", ".", "/" }

GeneratedNames == UNION { SeqsOfLen(PathChars, n) : n \in 0..MaxNameLen }

ListedNames ==
    { <<"r","e","p","o","r","t","s","/","q","1",".","p","d","f">>,
      <<"a",".","p","d","f">>,
      <<"a",".","P","D","F">>,
      <<"a",".","P","d","f">>,
      <<".","p","d","f">>,
      <<"d","/",".","P","D","F">>,
      <<"a",".","t","a","r",".","p","d","f">>,
      <<"a",".","p","d","f",".","b","a","k">>,
      <<"d",".","p","d","f","/","a">>,
      <<"a",".","h","t","m","l">>,
      <<"A",".","D","O","C","X">>,
      <<"a",".","p","p","t","x">>,
      <<"a",".","t","x","t">>,
      <<"a",".","x","l","s","x">> }

Names == { None } \cup ListedNames \cup GeneratedNames

Buckets == { None, <<>>, <<"m","y","-","b","u","c","k","e","t">> }

Events == [ bucket : Buckets, name : Names ]

\* the events delivered when several invocations run together
ConcurrentEvents ==
    { [ bucket |-> <<"m","y","-","b","u","c","k","e","t">>, name |-> n ] :
        n \in { <<"a",".","p","d","f">>, <<"a",".","P","D","F">>,
                <<"a",".","p","d","f",".","b","a","k">>, None } }

NoEvent == [ bucket |-> None, name |-> None ]

-----------------------------------------------------------------------------
(* State after module import, before any event *)

Init ==
    /\ PROJECT_ID \in ProjectIds
    /\ LOCATION \in Locations
    /\ DATA_STORE_ID \in DataStoreIds
    /\ pc = [i \in Slots |-> "idle"]
    /\ event = [i \in Slots |-> NoEvent]
    /\ extension = [i \in Slots |-> None]
    /\ sent = [i \in Slots |-> <<>>]
    /\ result = [i \in Slots |-> "none"]
    /\ raised = [i \in Slots |-> "none"]
    /\ logs = [i \in Slots |-> <<>>]
    /\ submitted = 0
    /\ delivered = 0

-----------------------------------------------------------------------------
(* update_vertex_search, one action per step of the handler *)

\* print(...): one more line on the invocation's output
printed(i, text) == [logs EXCEPT ![i] = Append(@, text)]

\* the framework calls the handler with an event; data.get gives None for
\* an absent key (main.py:22-34)
Deliver(i, events) ==
    /\ pc[i] = "idle"
    /\ delivered < MaxDeliveries
    /\ \E ev \in events : event' = [event EXCEPT ![i] = ev]
    /\ pc' = [pc EXCEPT ![i] = "validate"]
    /\ delivered' = delivered + 1
    /\ UNCHANGED <<config, extension, sent, result, raised, logs, submitted>>

\* variant: the settings left out of the check
allPresent_eventOnly(ev) == Truthy(ev.bucket) /\ Truthy(ev.name)

\* all([bucket_name, file_name, PROJECT_ID, LOCATION, DATA_STORE_ID])
allPresent(ev) ==
    /\ Truthy(ev.bucket)
    /\ Truthy(ev.name)
    /\ Truthy(PROJECT_ID)
    /\ Truthy(LOCATION)
    /\ Truthy(DATA_STORE_ID)

\* main.py:36-40
Validate(i) ==
    /\ pc[i] = "validate"
    /\ IF ~allPresent(event[i])
       THEN /\ logs' = printed(i, [line |-> "ErrorMissing"])
            /\ pc' = [pc EXCEPT ![i] = "returned"]
       ELSE /\ logs' = printed(i, [line |-> "Processing",
                                 uri |-> gcsUri(event[i].bucket, event[i].name)])
            /\ pc' = [pc EXCEPT ![i] = "filter"]
    /\ UNCHANGED <<config, event, extension, sent, result, raised, submitted,
                   delivered>>

\* main.py:43-46
FilterExtension(i) ==
    /\ pc[i] = "filter"
    /\ LET ext == splitext(event[i].name)[2]
       IN  /\ extension' = [extension EXCEPT ![i] = ext]
           /\ IF lower(ext) \notin ALLOWED_EXTENSIONS
              THEN /\ logs' = printed(i, [line |-> "Skipping",
                                        file |-> event[i].name,
                                        extension |-> ext])
                   /\ pc' = [pc EXCEPT ![i] = "returned"]
              ELSE /\ logs' = logs
                   /\ pc' = [pc EXCEPT ![i] = "import"]
    /\ UNCHANGED <<config, event, sent, result, raised, submitted, delivered>>

\* variant: a request another invocation already sent is not sent again
ImportDocuments_dedup(i) ==
    /\ pc[i] = "import"
    /\ LET req == ImportDocumentsRequest(event[i].bucket, event[i].name)
       IN  IF \E j \in Slots \ { i } : sent[j] = << req >>
           THEN /\ pc' = [pc EXCEPT ![i] = "returned"]
                /\ UNCHANGED <<sent, submitted, result, raised>>
           ELSE /\ sent' = [sent EXCEPT ![i] = Append(@, req)]
                /\ submitted' = submitted + 1
                /\ \E r \in ClientResults :
                     /\ result' = [result EXCEPT ![i] = r]
                     /\ IF r = "ok"
                        THEN /\ pc' = [pc EXCEPT ![i] = "started"]
                             /\ raised' = raised
                        ELSE IF isGoogleAPICallError(r)
                        THEN /\ pc' = [pc EXCEPT ![i] = "except"]
                             /\ raised' = raised
                        ELSE /\ pc' = [pc EXCEPT ![i] = "raised"]
                             /\ raised' = [raised EXCEPT ![i] = r]
    /\ UNCHANGED <<config, event, extension, logs, delivered>>

\* main.py:49-71: the request is built and import_documents is called; the
\* call returns an operation or raises
ImportDocuments(i) ==
    /\ pc[i] = "import"
    /\ sent' = [sent EXCEPT ![i] =
                  Append(@, ImportDocumentsRequest(event[i].bucket, event[i].name))]
    /\ submitted' = submitted + 1
    /\ \E r \in ClientResults :
         /\ result' = [result EXCEPT ![i] = r]
         /\ IF r = "ok"
            THEN /\ pc' = [pc EXCEPT ![i] = "started"]
                 /\ raised' = raised
            ELSE IF isGoogleAPICallError(r)
            THEN /\ pc' = [pc EXCEPT ![i] = "except"]
                 /\ raised' = raised
            ELSE /\ pc' = [pc EXCEPT ![i] = "raised"]
                 /\ raised' = [raised EXCEPT ![i] = r]
    /\ UNCHANGED <<config, event, extension, logs, delivered>>

\* variant: only the second print
LogSuccess_oneLine(i) ==
    /\ pc[i] = "started"
    /\ logs' = printed(i, [line |-> "Success",
                           uri |-> gcsUri(event[i].bucket, event[i].name)])
    /\ pc' = [pc EXCEPT ![i] = "returned"]
    /\ UNCHANGED <<config, event, extension, sent, result, raised, submitted,
                   delivered>>

\* main.py:72-73
LogSuccess(i) ==
    /\ pc[i] = "started"
    /\ logs' = [logs EXCEPT ![i] =
                  @ \o << [line |-> "Started", operation |-> "operation.name"],
                          [line |-> "Success",
                           uri |-> gcsUri(event[i].bucket, event[i].name)] >>]
    /\ pc' = [pc EXCEPT ![i] = "returned"]
    /\ UNCHANGED <<config, event, extension, sent, result, raised, submitted,
                   delivered>>

\* variant: the except block without `raise`
HandleApiError_swallow(i) ==
    /\ pc[i] = "except"
    /\ logs' = printed(i, [line |-> "ErrorApi",
                           uri |-> gcsUri(event[i].bucket, event[i].name),
                           detail |-> result[i]])
    /\ pc' = [pc EXCEPT ![i] = "returned"]
    /\ UNCHANGED <<config, event, extension, sent, result, raised, submitted,
                   delivered>>

\* main.py:75-78
HandleApiError(i) ==
    /\ pc[i] = "except"
    /\ logs' = printed(i, [line |-> "ErrorApi",
                         uri |-> gcsUri(event[i].bucket, event[i].name),
                         detail |-> result[i]])
    /\ raised' = [raised EXCEPT ![i] = result[i]]
    /\ pc' = [pc EXCEPT ![i] = "raised"]
    /\ UNCHANGED <<config, event, extension, sent, result, submitted, delivered>>

\* the invocation has returned or raised; the framework reuses the worker
Retire(i) ==
    /\ pc[i] \in { "returned", "raised" }
    /\ pc' = [pc EXCEPT ![i] = "idle"]
    /\ event' = [event EXCEPT ![i] = NoEvent]
    /\ extension' = [extension EXCEPT ![i] = None]
    /\ sent' = [sent EXCEPT ![i] = <<>>]
    /\ result' = [result EXCEPT ![i] = "none"]
    /\ raised' = [raised EXCEPT ![i] = "none"]
    /\ logs' = [logs EXCEPT ![i] = <<>>]
    /\ UNCHANGED <<config, submitted, delivered>>

\* one worker handling events one after the other
Next ==
    \E i \in { 1 } :
        \/ Deliver(i, Events)
        \/ Validate(i)
        \/ FilterExtension(i)
        \/ ImportDocuments(i)
        \/ LogSuccess(i)
        \/ HandleApiError(i)
        \/ Retire(i)

Spec == Init /\ [][Next]_vars

\* NumInv invocations running together, in any interleaving
NextConc ==
    \E i \in Slots :
        \/ Deliver(i, ConcurrentEvents)
        \/ Validate(i)
        \/ FilterExtension(i)
        \/ ImportDocuments(i)
        \/ LogSuccess(i)
        \/ HandleApiError(i)

SpecConc == Init /\ [][NextConc]_vars

-----------------------------------------------------------------------------
(* Vocabulary of the properties *)

Finished(i) == pc[i] \in { "returned", "raised" }

NonEmpty(x) == x # None /\ Len(x) > 0

FieldsPresent(i) ==
    /\ NonEmpty(event[i].bucket)
    /\ NonEmpty(event[i].name)
    /\ NonEmpty(PROJECT_ID)
    /\ NonEmpty(LOCATION)
    /\ NonEmpty(DATA_STORE_ID)

AllowSet ==
    { <<".","h","t","m","l">>, <<".","p","d","f">>, <<".","d","o","c","x">>,
      <<".","p","p","t","x">>, <<".","t","x","t">>, <<".","x","l","s","x">> }

LastIndexOf(p, c) ==
    IF \E k \in 1..Len(p) : p[k] = c
    THEN CHOOSE k \in 1..Len(p) :
           p[k] = c /\ \A m \in (k + 1)..Len(p) : p[m] # c
    ELSE 0

\* the suffix that starts at the last dot after the last path separator
SuffixFromLastDot(p) ==
    LET d == LastIndexOf(p, ".")
    IN  IF d > LastIndexOf(p, "/") THEN SubSeq(p, d, Len(p)) ELSE <<>>

\* the same suffix, counted as an extension only when a character other
\* than a dot stands before that dot in the last path segment
FileExtension(p) ==
    LET s == LastIndexOf(p, "/")
        d == LastIndexOf(p, ".")
    IN  IF d > s /\ \E k \in (s + 1)..(d - 1) : p[k] # "."
        THEN SubSeq(p, d, Len(p))
        ELSE <<>>

Lowered(s) == [k \in 1..Len(s) |-> ToLower(s[k])]

EndsWith(s, t) ==
    Len(t) <= Len(s) /\ SubSeq(s, Len(s) - Len(t) + 1, Len(s)) = t

Contains(s, t) ==
    \E k \in 0..(Len(s) - Len(t)) : SubSeq(s, k + 1, k + Len(t)) = t

Slashed(x) == <<"/">> \o x \o <<"/">>

\* "gs://{bucket}/{name}", read off the characters of u
IsGsUri(u, bucket, name) ==
    /\ Len(u) = 5 + Len(bucket) + 1 + Len(name)
    /\ SubSeq(u, 1, 5) = <<"g","s",":","/","/">>
    /\ SubSeq(u, 6, 5 + Len(bucket)) = bucket
    /\ u[6 + Len(bucket)] = "/"
    /\ SubSeq(u, 7 + Len(bucket), Len(u)) = name

HasLine(i, kind) == \E k \in 1..Len(logs[i]) : logs[i][k].line = kind

ErrorLines == { "ErrorMissing", "ErrorApi" }

MyBucket == <<"m","y","-","b","u","c","k","e","t">>

ReportsQ1 == <<"r","e","p","o","r","t","s","/","q","1",".","p","d","f">>

-----------------------------------------------------------------------------
(* C1 *)

\* C1: an import submission has been issued for an event only if its
\* bucket and name and PROJECT_ID, LOCATION and DATA_STORE_ID were all
\* non-empty and the lower-cased extension of name is in the allow-set.
C1_SubmissionOnlyWhenEligible ==
    \A i \in Slots :
        Len(sent[i]) > 0 =>
            /\ FieldsPresent(i)
            /\ Lowered(FileExtension(event[i].name)) \in AllowSet

C1_Witness ==
    /\ delivered >= 2
    /\ submitted >= 2
    /\ Len(sent[1]) = 1
    /\ event[1].name = <<"a",".","P","D","F">>

-----------------------------------------------------------------------------
(* C2 *)

AnyFieldMissing(i) == ~FieldsPresent(i)

\* C2: when any of bucket, name, PROJECT_ID, LOCATION or DATA_STORE_ID is
\* missing or empty, the invocation prints the configuration/payload error
\* and returns normally: nothing is raised, nothing is submitted, and the
\* handler never goes past validation.
C2_MissingFieldsReturnNormally ==
    \A i \in Slots :
        (pc[i] # "idle" /\ AnyFieldMissing(i)) =>
            /\ pc[i] \in { "validate", "returned" }
            /\ raised[i] = "none"
            /\ sent[i] = <<>>
            /\ pc[i] = "returned" => logs[i] = << [line |-> "ErrorMissing"] >>

\* a second invocation under a configuration with an empty LOCATION, for an
\* event that is itself complete and has a supported extension
C2_Witness ==
    /\ delivered >= 2
    /\ LOCATION = <<>>
    /\ NonEmpty(PROJECT_ID) /\ NonEmpty(DATA_STORE_ID)
    /\ pc[1] = "returned"
    /\ event[1] = [bucket |-> MyBucket, name |-> ReportsQ1]

-----------------------------------------------------------------------------
(* C3 *)

UnsupportedName(i) ==
    /\ NonEmpty(event[i].name)
    /\ Lowered(FileExtension(event[i].name)) \notin AllowSet

SkippedNormally(i) ==
    /\ pc[i] = "returned"
    /\ raised[i] = "none"
    /\ \E k \in 1..Len(logs[i]) :
         logs[i][k] = [line |-> "Skipping", file |-> event[i].name,
                       extension |-> FileExtension(event[i].name)]
    /\ \A k \in 1..Len(logs[i]) : logs[i][k].line \notin ErrorLines

\* C3 as stated: whenever the object key's lower-cased extension is not in
\* the allow-set, the finished invocation has printed the skip line naming
\* the file and its extension, has returned normally and has printed no
\* error line.
C3_Original ==
    \A i \in Slots :
        (Finished(i) /\ UnsupportedName(i)) => SkippedNormally(i)

\* C3 amended: the same, for events whose bucket and name are non-empty
\* under a complete configuration; such an invocation also submits nothing.
C3_UnsupportedExtensionSkipped ==
    \A i \in Slots :
        (FieldsPresent(i) /\ UnsupportedName(i)) =>
            /\ pc[i] \in { "idle", "validate", "filter", "returned" }
            /\ sent[i] = <<>>
            /\ Finished(i) => SkippedNormally(i)

C3_Witness ==
    /\ FieldsPresent(1)
    /\ event[1].name = <<"a",".","p","d","f",".","b","a","k">>
    /\ pc[1] = "returned"
    /\ extension[1] = <<".","b","a","k">>

-----------------------------------------------------------------------------
(* C4 *)

-----------------------------------------------------------------------------
(* C5 *)

BranchSuffix ==
    <<"/","b","r","a","n","c","h","e","s","/",
      "d","e","f","a","u","l","t","_","b","r","a","n","c","h">>

\* C5: every request submitted for an event (bucket, name) has a source-URI
\* list of exactly one element, "gs://{bucket}/{name}" with name unaltered,
\* data schema "content", reconciliation mode INCREMENTAL, and a parent
\* that holds PROJECT_ID, LOCATION and DATA_STORE_ID as path segments and
\* ends in "/branches/default_branch".
C5_RequestContents ==
    \A i \in Slots :
        \A k \in 1..Len(sent[i]) :
            LET req == sent[i][k]
            IN  /\ Len(req.gcs_source.input_uris) = 1
                /\ IsGsUri(req.gcs_source.input_uris[1],
                           event[i].bucket, event[i].name)
                /\ (event[i].bucket = MyBucket /\ event[i].name = ReportsQ1) =>
                     req.gcs_source.input_uris =
                       << <<"g","s",":","/","/","m","y","-","b","u","c","k","e","t",
                            "/","r","e","p","o","r","t","s","/","q","1",".","p","d","f">> >>
                /\ req.gcs_source.data_schema = "content"
                /\ req.reconciliation_mode = "INCREMENTAL"
                /\ req.reconciliation_mode # "FULL"
                /\ EndsWith(req.parent, BranchSuffix)
                /\ Contains(req.parent, Slashed(PROJECT_ID))
                /\ Contains(req.parent, Slashed(LOCATION))
                /\ Contains(req.parent, Slashed(DATA_STORE_ID))

C5_Witness ==
    /\ Len(sent[1]) = 1
    /\ event[1] = [bucket |-> MyBucket, name |-> <<"A",".","D","O","C","X">>]

-----------------------------------------------------------------------------
(* C6 *)

ApiErrorLine(i) ==
    [line |-> "ErrorApi",
     uri |-> <<"g","s",":","/","/">> \o event[i].bucket \o <<"/">> \o event[i].name,
     detail |-> result[i]]

\* C6: if the client raised an API-call error, the handler first prints the
\* error line naming the URI and the failure and then ends by raising that
\* same error; it never returns normally and never prints the success
\* lines.
C6_ApiCallErrorLoggedThenReraised ==
    \A i \in Slots :
        result[i] \in ApiCallErrors =>
            /\ pc[i] \in { "except", "raised" }
            /\ pc[i] = "except" => raised[i] = "none"
            /\ pc[i] = "raised" =>
                 /\ raised[i] = result[i]
                 /\ logs[i][Len(logs[i])] = ApiErrorLine(i)
            /\ ~HasLine(i, "Success")
            /\ ~HasLine(i, "Started")

C6_Witness ==
    /\ pc[1] = "raised"
    /\ result[1] = "PermissionDenied"
    /\ raised[1] = "PermissionDenied"

-----------------------------------------------------------------------------
(* C7 *)

ClientFailed(i) == result[i] \notin { "none", "ok" }

\* C7 as stated: whatever the kind of the failure the client surfaced, the
\* error line with the URI and the detail has been printed by the time the
\* failure has left the handler.
C7_Original ==
    \A i \in Slots :
        (ClientFailed(i) /\ pc[i] = "raised") =>
            \E k \in 1..Len(logs[i]) : logs[i][k] = ApiErrorLine(i)

\* C7 amended: a failure of the GoogleAPICallError kind (permission, quota,
\* malformed request) has its error line printed by the time it has left
\* the handler; a failure of any other kind leaves the handler as it is,
\* with no error line printed.
C7_OnlyApiCallErrorsLogged ==
    \A i \in Slots :
        (ClientFailed(i) /\ pc[i] = "raised") =>
            /\ raised[i] = result[i]
            /\ result[i] \in { "PermissionDenied", "ResourceExhausted",
                               "InvalidArgument" }
                 => \E k \in 1..Len(logs[i]) : logs[i][k] = ApiErrorLine(i)
            /\ result[i] \notin { "PermissionDenied", "ResourceExhausted",
                                  "InvalidArgument" }
                 => \A k \in 1..Len(logs[i]) : logs[i][k].line \notin ErrorLines

C7_Witness ==
    /\ pc[1] = "raised"
    /\ result[1] = "RetryError"
    /\ raised[1] = "RetryError"

-----------------------------------------------------------------------------
(* C8 *)

\* C8 as stated: a finished invocation has made zero or one submission and
\* has printed exactly one line.
C8_Original ==
    \A i \in Slots :
        Finished(i) => Len(sent[i]) \in { 0, 1 } /\ Len(logs[i]) = 1

\* C8 amended: a finished invocation has made zero or one submission and
\* has printed at least one line: one on missing fields, two on an
\* unsupported extension, three on a successful submission, two on a
\* propagated API-call failure, one when a failure of another kind
\* propagates.
C8_SubmissionsAndLogLines ==
    \A i \in Slots :
        /\ Len(sent[i]) \in { 0, 1 }
        /\ Finished(i) =>
             Len(logs[i]) =
                IF AnyFieldMissing(i) THEN 1
                ELSE IF Len(sent[i]) = 0 THEN 2
                ELSE IF result[i] = "ok" THEN 3
                ELSE IF result[i] \in ApiCallErrors THEN 2
                ELSE 1

C8_Witness ==
    /\ pc[1] = "returned"
    /\ result[1] = "ok"
    /\ Len(sent[1]) = 1
    /\ Len(logs[1]) = 3

-----------------------------------------------------------------------------
(* C10 *)

Compared(i) == Lowered(extension[i])

\* C10 as stated: the extension compared against the allow-set is the
\* lower-cased suffix of name from the last dot after the last path
\* separator, empty when there is no such dot; so a last segment ".pdf"
\* gives ".pdf".
C10_Original ==
    \A i \in Slots :
        extension[i] # None =>
            Compared(i) = Lowered(SuffixFromLastDot(event[i].name))

\* C10 amended: it is that suffix provided a character other than a dot
\* stands between the last path separator (or the start of name) and that
\* dot, and empty otherwise: "a.tar.pdf" gives ".pdf", "a.pdf.bak" gives
\* ".bak", and a last segment ".pdf" gives the empty extension.
C10_ExtensionDerivation ==
    \A i \in Slots :
        extension[i] # None =>
            /\ Compared(i) = Lowered(FileExtension(event[i].name))
            /\ event[i].name = <<"a",".","t","a","r",".","p","d","f">>
                 => Compared(i) = <<".","p","d","f">>
            /\ event[i].name = <<"a",".","p","d","f",".","b","a","k">>
                 => Compared(i) = <<".","b","a","k">>
            /\ event[i].name \in { <<".","p","d","f">>, <<"d","/",".","P","D","F">> }
                 => Compared(i) = <<>>

C10_Witness ==
    /\ event[1].name = <<"d","/",".","P","D","F">>
    /\ extension[1] = <<>>
    /\ pc[1] = "returned"

-----------------------------------------------------------------------------
(* C9, checked under SpecConc *)

Eligible(i) ==
    /\ pc[i] # "idle"
    /\ FieldsPresent(i)
    /\ Lowered(FileExtension(event[i].name)) \in AllowSet

PastImport(i) == pc[i] \notin { "idle", "validate", "filter", "import" }

C9_State ==
    \* k eligible deliveries that reached the call have made k submissions,
    \* one each, whatever the other invocations hold
    /\ submitted = Cardinality({ i \in Slots : Eligible(i) /\ PastImport(i) })
    /\ \A i \in Slots : (Eligible(i) /\ PastImport(i)) => Len(sent[i]) = 1
    /\ \A i \in Slots : (pc[i] # "idle" /\ ~Eligible(i)) => sent[i] = <<>>
    \* equal events give equal requests, and with equal answers of the
    \* client equal outcomes and equal output
    /\ \A i, j \in Slots :
         (event[i] = event[j] /\ Finished(i) /\ Finished(j)) =>
            /\ sent[i] = sent[j]
            /\ result[i] = result[j] =>
                 /\ pc[i] = pc[j]
                 /\ raised[i] = raised[j]
                 /\ logs[i] = logs[j]

\* C9: under every interleaving each eligible delivery makes its own
\* submission, repeated deliveries of one event included (no
\* deduplication); what an invocation sends and how it ends depend only on
\* its event, the configuration and the client's answer to it; and no step
\* of any invocation changes PROJECT_ID, LOCATION or DATA_STORE_ID.
C9_InvocationsIndependent ==
    /\ []C9_State
    /\ [][config' = config]_vars

\* the same event delivered twice, both finished, one accepted and one
\* refused by the client: two submissions
C9_Witness ==
    /\ event[1] = event[2]
    /\ Eligible(1)
    /\ pc[1] = "returned" /\ result[1] = "ok"
    /\ pc[2] = "raised" /\ result[2] = "ResourceExhausted"
    /\ submitted = 2
    /\ sent[1] = sent[2]

====
